---- MODULE Spec2Model ----
(***************************************************************************)
(* Model of gai-cli's autonomous edit-verify loop:                         *)
(*   fs.py     validate_path (Path Sandbox), apply_actions (Executor)      *)
(*   agent.py  validate_plan, generate_plan (Plan Extractor, retry budget) *)
(*   chat.py   start_chat_session (Control Loop), handle_command           *)
(*                                                                         *)
(* Conventions                                                             *)
(*  - A Python str that is only concatenated and searched (prompts,        *)
(*    requests, file content, process output) is a sequence of tokens;     *)
(*    concatenation is \o and "contains" is contiguous-subsequence.        *)
(*  - A path string is kept in the form pathlib parses it to: an           *)
(*    absolute flag and the sequence of its components.  An absolute path  *)
(*    on disk is the sequence of its components below "/".                 *)
(*  - A value decoded from the model's reply carries its Python type in    *)
(*    the field t ("str", "int", "missing", "dict", "list").               *)
(*  - POSIX semantics (str(Path) starts with "/").                         *)
(***************************************************************************)
EXTENDS Integers, Sequences, FiniteSets, TLC

\* ------------------------------------------------------------------------
\* Bounds of the model
\* ------------------------------------------------------------------------
MaxActions == 2
MaxCycles == 2
MaxText == 2
MaxRounds == 4

\* ------------------------------------------------------------------------
\* Generic sequence helpers
\* ------------------------------------------------------------------------
RECURSIVE IsPrefixFrom(_, _, _)
IsPrefixFrom(p, s, i) ==
    IF i > Len(p) THEN TRUE
    ELSE IF i > Len(s) THEN FALSE
    ELSE IF p[i] # s[i] THEN FALSE
    ELSE IsPrefixFrom(p, s, i + 1)

\* str.startswith on character sequences
StartsWith(s, p) == IsPrefixFrom(p, s, 1)

Contains(s, sub) ==
    \E i \in 1..(Len(s) - Len(sub) + 1) : SubSeq(s, i, i + Len(sub) - 1) = sub

Front(s) == SubSeq(s, 1, Len(s) - 1)

RemoveAt(s, i) == SubSeq(s, 1, i - 1) \o SubSeq(s, i + 1, Len(s))

RECURSIVE Flatten(_)
Flatten(ss) == IF ss = <<>> THEN <<>> ELSE Head(ss) \o Flatten(Tail(ss))

\* ------------------------------------------------------------------------
\* fs.py : safety constants
\* ------------------------------------------------------------------------
IGNORED_DIRS ==
    {".git", "__pycache__", "node_modules", "venv", ".venv",
     "dist", "build", ".idea", ".vscode", "coverage"}

\* each reserved prefix as the character sequence of the Python string
SYSTEM_PATHS ==
    { <<"C", ":", "\\", "W", "i", "n", "d", "o", "w", "s">>,
      <<"C", ":", "\\", "P", "r", "o", "g", "r", "a", "m", " ", "F", "i", "l", "e", "s">>,
      <<"C", ":", "\\", "P", "r", "o", "g", "r", "a", "m", " ", "F", "i", "l", "e", "s",
        " ", "(", "x", "8", "6", ")">>,
      <<"/", "e", "t", "c">>, <<"/", "u", "s", "r">>, <<"/", "b", "i", "n">>,
      <<"/", "s", "b", "i", "n">>, <<"/", "v", "a", "r">>, <<"/", "o", "p", "t">> }

\* the characters of every file name the model uses
Chars(name) ==
    CASE name = "home"  -> <<"h", "o", "m", "e">>
      [] name = "proj"  -> <<"p", "r", "o", "j">>
      [] name = "proj2" -> <<"p", "r", "o", "j", "2">>
      [] name = "srv"   -> <<"s", "r", "v">>
      [] name = "build" -> <<"b", "u", "i", "l", "d">>
      [] name = "opt"   -> <<"o", "p", "t">>
      [] name = "etc"   -> <<"e", "t", "c">>
      [] name = "out"   -> <<"o", "u", "t">>
      [] name = ".git"  -> <<".", "g", "i", "t">>
      [] name = "ln"    -> <<"l", "n">>
      [] name = "a"     -> <<"a">>
      [] name = "b"     -> <<"b">>
      [] name = "c"     -> <<"c">>
      [] name = "d"     -> <<"d">>
      [] name = "x"     -> <<"x">>
      [] name = "z"     -> <<"z">>
      [] name = "README.md" -> <<"R", "E", "A", "D", "M", "E", ".", "m", "d">>
      [] OTHER          -> <<"?">>

\* str(Path) of an absolute path: "/" for the root, else "/c1/c2/..."
PathStr(abs) ==
    IF abs = <<>> THEN <<"/">>
    ELSE Flatten([i \in 1..Len(abs) |-> <<"/">> \o Chars(abs[i])])

\* ------------------------------------------------------------------------
\* fs.py : validate_path  (the Path Sandbox)
\* ------------------------------------------------------------------------
\* Path.resolve() / os.path.realpath: components are consumed left to right,
\* ".." drops the last resolved component ("/.." is "/"), a component that
\* is a symbolic link is replaced by its (absolute) target.
RECURSIVE RealPath(_, _, _)
RealPath(lnk, cur, rest) ==
    IF rest = <<>> THEN cur
    ELSE IF Head(rest) = ".."
         THEN RealPath(lnk, IF cur = <<>> THEN <<>> ELSE Front(cur), Tail(rest))
    ELSE IF Append(cur, Head(rest)) \in DOMAIN lnk
         THEN RealPath(lnk, <<>>, lnk[Append(cur, Head(rest))] \o Tail(rest))
    ELSE RealPath(lnk, Append(cur, Head(rest)), Tail(rest))

\* Path(path).resolve(): a relative path is taken from the working directory
Resolve(lnk, wd, p) == RealPath(lnk, IF p.abs THEN <<>> ELSE wd, p.parts)

\* string-prefix containment test: accepts /home/proj2 for the root /home/proj
relative_to_strprefix(target, base) == StartsWith(PathStr(target), PathStr(base))

\* PurePath.relative_to succeeds iff base is a component-wise prefix of target
relative_to(target, base) == IsPrefixFrom(base, target, 1)

NoTarget == <<>>

SandboxOk(target) == [ok |-> TRUE, exc |-> "", msg |-> "", target |-> target]

SandboxFail(exc, msg) == [ok |-> FALSE, exc |-> exc, msg |-> msg, target |-> NoTarget]

MsgOutside == "Path restricted: outside the project directory."
MsgSystem == "Path blocked: is a system directory."
MsgIgnored == "Path restricted: Cannot modify files in ignored directory."
MsgPathType == "expected str, bytes or os.PathLike object"

\* validate_path without the containment test
validate_path_nocontain(lnk, wd, p) ==
    IF p.t # "str" THEN SandboxFail("TypeError", MsgPathType)
    ELSE LET target == Resolve(lnk, wd, p) IN
         IF \E sp \in SYSTEM_PATHS : StartsWith(PathStr(target), sp)
         THEN SandboxFail("UnsafePathError", MsgSystem)
         ELSE IF \E i \in 1..Len(target) : target[i] \in IGNORED_DIRS
         THEN SandboxFail("UnsafePathError", MsgIgnored)
         ELSE SandboxOk(target)

validate_path(lnk, wd, p) ==
    IF p.t # "str" THEN SandboxFail("TypeError", MsgPathType)
    ELSE LET target == Resolve(lnk, wd, p)
             str_target == PathStr(target)
         IN
         IF ~relative_to(target, wd)
         THEN SandboxFail("UnsafePathError", MsgOutside)
         ELSE IF \E sp \in SYSTEM_PATHS : StartsWith(str_target, sp)
         THEN SandboxFail("UnsafePathError", MsgSystem)
         ELSE IF \E i \in 1..Len(target) : target[i] \in IGNORED_DIRS
         THEN SandboxFail("UnsafePathError", MsgIgnored)
         ELSE SandboxOk(target)

\* ------------------------------------------------------------------------
\* Disk operations used by apply_actions.  A disk is [files, dirs]:
\* files maps absolute path -> content, dirs is the set of directories.
\* ------------------------------------------------------------------------
Prefixes(p) == {SubSeq(p, 1, k) : k \in 0..Len(p)}

Exists(d, p) == p \in d.dirs \/ p \in DOMAIN d.files

\* Path.mkdir(parents=True, exist_ok=True)
Mkdir(d, p) ==
    IF p \in d.dirs THEN [ok |-> TRUE, exc |-> "", disk |-> d]
    ELSE IF p \in DOMAIN d.files
         THEN [ok |-> FALSE, exc |-> "FileExistsError", disk |-> d]
    ELSE IF \E q \in Prefixes(p) : q \in DOMAIN d.files
         THEN [ok |-> FALSE, exc |-> "NotADirectoryError", disk |-> d]
    ELSE [ok |-> TRUE, exc |-> "",
          disk |-> [d EXCEPT !.dirs = d.dirs \cup Prefixes(p)]]

\* write_text adds to what the file holds instead of replacing it
WriteText_append(d, p, content) ==
    IF content.t # "str" THEN [ok |-> FALSE, exc |-> "TypeError", disk |-> d]
    ELSE IF p \in d.dirs
         THEN [ok |-> FALSE, exc |-> "IsADirectoryError", disk |-> d]
    ELSE [ok |-> TRUE, exc |-> "",
          disk |-> [d EXCEPT !.files = (p :> (IF p \in DOMAIN d.files THEN d.files[p] ELSE <<>>)
                                                \o content.c) @@ d.files]]

\* Path.write_text(content): the type test precedes the open
WriteText(d, p, content) ==
    IF content.t # "str" THEN [ok |-> FALSE, exc |-> "TypeError", disk |-> d]
    ELSE IF p \in d.dirs
         THEN [ok |-> FALSE, exc |-> "IsADirectoryError", disk |-> d]
    ELSE [ok |-> TRUE, exc |-> "",
          disk |-> [d EXCEPT !.files = (p :> content.c) @@ d.files]]

\* the file is opened for writing, so what it held is lost
AppendText_overwrite(d, p, content) ==
    IF p \in d.dirs
    THEN [ok |-> FALSE, exc |-> "IsADirectoryError", disk |-> d]
    ELSE IF content.t # "str"
         THEN [ok |-> FALSE, exc |-> "TypeError", disk |-> d]
    ELSE [ok |-> TRUE, exc |-> "",
          disk |-> [d EXCEPT !.files[p] = content.c]]

\* open(target, "a") then f.write(content); the target is known to exist
AppendText(d, p, content) ==
    IF p \in d.dirs
    THEN [ok |-> FALSE, exc |-> "IsADirectoryError", disk |-> d]
    ELSE IF content.t # "str"
         THEN [ok |-> FALSE, exc |-> "TypeError", disk |-> d]
    ELSE [ok |-> TRUE, exc |-> "",
          disk |-> [d EXCEPT !.files[p] = d.files[p] \o content.c]]

\* ------------------------------------------------------------------------
\* fs.py : apply_actions  (the Action Executor)
\* ------------------------------------------------------------------------
\* str.lower() on the kind strings the model uses
Lower(s) ==
    CASE s = "Create" -> "create"
      [] s = "WRITE"  -> "write"
      [] OTHER        -> s

EmptyStr == [t |-> "str", c |-> <<>>]
EmptyPath == [t |-> "str", abs |-> FALSE, parts |-> <<>>]

\* action.get("path", "") and action.get("content", "")
PathOf(a) == IF a.path.t = "missing" THEN EmptyPath ELSE a.path
ContentOf(a) == IF a.content.t = "missing" THEN EmptyStr ELSE a.content

MsgWritten == "Written"
MsgAppended == "Appended to"
MsgExists == "File already exists (action=create)"
MsgNoFile == "File does not exist (action=append)"
MsgUnknown == "Unknown action"

\* the result reports an empty path for a failed action instead of path_str
Outcome_droppath(d, a, status, message) ==
    [raised |-> FALSE, disk |-> d,
     result |-> [path |-> IF status = "error" THEN EmptyPath ELSE PathOf(a),
                 status |-> status, message |-> message]]

\* fs.py 85 and 115-118: the result appended for the action
Outcome(d, a, status, message) ==
    [raised |-> FALSE, disk |-> d,
     result |-> [path |-> PathOf(a), status |-> status, message |-> message]]

\* fs.py 81: the attribute lookup .lower() on a kind that is not a str raises
\* outside the try; nothing is appended and the exception leaves apply_actions
Escaped(d, a) ==
    [raised |-> TRUE, disk |-> d,
     result |-> [path |-> PathOf(a), status |-> "pending", message |-> "AttributeError"]]

\* the exception raised by validate_path is not caught and ends the batch
OnRejected_raise(d, a, v) == Escaped(d, a)

\* fs.py 114-116: the except clause, for an exception raised by validate_path
OnRejected(d, a, v) == Outcome(d, a, "error", v.msg)

\* a create never finds its target in the way
Collides_never(d, act_type, target) == FALSE

\* fs.py 95: the collision test of create
Collides(d, act_type, target) == act_type = "create" /\ Exists(d, target)

\* fs.py 80-118: one iteration of the loop of apply_actions
ApplyAction(lnk, wd, d, a) ==
    IF a.action.t \notin {"str", "missing"} THEN Escaped(d, a)
    ELSE
    LET act_type == IF a.action.t = "missing" THEN "" ELSE Lower(a.action.s)
        content == ContentOf(a)
        v == validate_path(lnk, wd, PathOf(a))
        target == v.target
    IN
    IF ~v.ok THEN OnRejected(d, a, v)
    ELSE IF act_type \in {"create", "write", "replace"} THEN
        LET m == Mkdir(d, Front(target)) IN
        IF ~m.ok THEN Outcome(d, a, "error", m.exc)
        ELSE IF Collides(m.disk, act_type, target)
             THEN Outcome(m.disk, a, "error", MsgExists)
        ELSE LET w == WriteText(m.disk, target, content) IN
             IF w.ok THEN Outcome(w.disk, a, "success", MsgWritten)
             ELSE Outcome(m.disk, a, "error", w.exc)
    ELSE IF act_type = "append" THEN
        IF ~Exists(d, target) THEN Outcome(d, a, "error", MsgNoFile)
        ELSE LET w == AppendText(d, target, content) IN
             IF w.ok THEN Outcome(w.disk, a, "success", MsgAppended)
             ELSE Outcome(d, a, "error", w.exc)
    ELSE Outcome(d, a, "error", MsgUnknown)

\* apply_actions as a function of the disk and the batch: the results
\* appended so far, the disk reached, and whether an exception escaped
RECURSIVE apply_actions_from(_, _, _, _, _)
apply_actions_from(lnk, wd, d, actions, res) ==
    IF actions = <<>> THEN [raised |-> FALSE, disk |-> d, results |-> res]
    ELSE LET r == ApplyAction(lnk, wd, d, Head(actions)) IN
         IF r.raised THEN [raised |-> TRUE, disk |-> r.disk, results |-> res]
         ELSE apply_actions_from(lnk, wd, r.disk, Tail(actions), Append(res, r.result))

apply_actions(lnk, wd, d, actions) == apply_actions_from(lnk, wd, d, actions, <<>>)

\* ------------------------------------------------------------------------
\* agent.py : the reply text and its extraction
\* A reply is a sequence of lines [k, syn, val]:
\*   k = "blank"     whitespace only
\*   k = "fence"     a markdown fence line; syn is the text after the fence
\*   k = "jsonword"  the literal word json
\*   k = "prose"     commentary
\*   k = "body"      one serialized value val; syn names its syntax:
\*                   "json"   strict JSON (also a Python literal)
\*                   "pylit"  a Python literal that is not JSON
\*                   "call"   Python syntax that is not a literal
\*                   "badkey" a dict display with an unhashable key
\* ------------------------------------------------------------------------
NoField == [t |-> "missing", s |-> ""]
NoPath == [t |-> "missing", abs |-> FALSE, parts |-> <<>>]
NoContent == [t |-> "missing", c |-> <<>>]
NoList == [t |-> "missing", items |-> <<>>]
NoValue == [t |-> "none", plan |-> NoField, actions |-> NoList]

Line(k, syn, val) == [k |-> k, syn |-> syn, val |-> val]

IsBlank(l) == l.k = "blank"

RECURSIVE LStrip(_)
LStrip(text) ==
    IF text # <<>> /\ IsBlank(Head(text)) THEN LStrip(Tail(text)) ELSE text

RECURSIVE RStrip(_)
RStrip(text) ==
    IF text # <<>> /\ IsBlank(text[Len(text)]) THEN RStrip(Front(text)) ELSE text

\* str.strip()
Strip(text) == RStrip(LStrip(text))

\* the closing fence stays in the text
StripFence_keepclose(clean_text) ==
    IF clean_text # <<>> /\ Head(clean_text).k = "fence"
    THEN Tail(clean_text)
    ELSE clean_text

\* agent.py 117-124: drop the first line of a fenced text and a closing fence
StripFence(clean_text) ==
    IF clean_text # <<>> /\ Head(clean_text).k = "fence"
    THEN LET lines == Tail(clean_text) IN
         IF lines # <<>> /\ lines[Len(lines)].k = "fence" /\ lines[Len(lines)].syn = ""
         THEN Front(lines) ELSE lines
    ELSE clean_text

\* agent.py 127-128: drop a leading word json
StripJsonWord(clean_text) ==
    IF clean_text # <<>> /\ Head(clean_text).k = "jsonword"
    THEN Strip(Tail(clean_text)) ELSE clean_text

NonBlank(text) == SelectSeq(text, LAMBDA l : ~IsBlank(l))

Parsed(val) == [ok |-> TRUE, exc |-> "", detail |-> "", val |-> val]
ParseFail(exc, detail) == [ok |-> FALSE, exc |-> exc, detail |-> detail, val |-> NoValue]

DetailJson == "Expecting value"
DetailSyntax == "invalid syntax"
DetailNode == "malformed node or string"
DetailKey == "unhashable type"
DetailSchema == "Parsed JSON does not match expected schema (missing keys or wrong types)."

\* json.loads: exactly one strict-JSON value, whitespace around it allowed
json_loads(text) ==
    LET nb == NonBlank(text) IN
    IF Len(nb) = 1 /\ nb[1].k = "body" /\ nb[1].syn = "json"
    THEN Parsed(nb[1].val)
    ELSE ParseFail("JSONDecodeError", DetailJson)

\* ast.literal_eval: exactly one Python literal
literal_eval(text) ==
    LET nb == NonBlank(text) IN
    IF Len(nb) = 1 /\ nb[1].k = "body"
    THEN CASE nb[1].syn \in {"json", "pylit"} -> Parsed(nb[1].val)
           [] nb[1].syn = "badkey" -> ParseFail("TypeError", DetailKey)
           [] OTHER -> ParseFail("ValueError", DetailNode)
    ELSE ParseFail("SyntaxError", DetailSyntax)

\* the kind and the path must be strings that are not empty
validate_plan_nonempty(plan) ==
    /\ plan.t = "dict"
    /\ plan.plan.t = "str"
    /\ plan.actions.t = "list"
    /\ \A i \in 1..Len(plan.actions.items) :
          /\ plan.actions.items[i].t = "dict"
          /\ plan.actions.items[i].action.t = "str"
          /\ plan.actions.items[i].action.s # ""
          /\ plan.actions.items[i].path.t = "str"
          /\ plan.actions.items[i].path.parts # <<>>

\* agent.py : validate_plan
validate_plan(plan) ==
    /\ plan.t = "dict"
    /\ plan.plan.t = "str"
    /\ plan.actions.t = "list"
    /\ \A i \in 1..Len(plan.actions.items) :
          /\ plan.actions.items[i].t = "dict"
          /\ plan.actions.items[i].action.t # "missing"
          /\ plan.actions.items[i].path.t # "missing"

\* the exception classes caught at agent.py 143
CaughtParseErrors == {"JSONDecodeError", "ValueError", "SyntaxError"}

\* the candidate is cut out of the text, from the first serialized value to
\* the last, and whatever stands before and after it is dropped
Extract_braces(response_text) ==
    LET bodies == {i \in 1..Len(response_text) : response_text[i].k = "body"}
        first == CHOOSE i \in bodies : \A j \in bodies : i <= j
        last == CHOOSE i \in bodies : \A j \in bodies : i >= j
        clean_text == IF bodies = {} THEN <<>> ELSE SubSeq(response_text, first, last)
        j == json_loads(clean_text)
        parsed == IF j.ok THEN j ELSE literal_eval(clean_text)
    IN
    IF ~parsed.ok
    THEN [status |-> IF parsed.exc \in CaughtParseErrors THEN "malformed" ELSE "raised",
          plan |-> NoValue, detail |-> parsed.detail]
    ELSE IF ~validate_plan(parsed.val)
    THEN [status |-> "malformed", plan |-> NoValue, detail |-> DetailSchema]
    ELSE [status |-> "ok", plan |-> parsed.val, detail |-> ""]

\* agent.py 114-141: status "ok" (plan returned), "malformed" (caught at
\* line 143) or "raised" (an exception of another class leaves generate_plan)
Extract(response_text) ==
    LET clean_text == StripJsonWord(StripFence(Strip(response_text)))
        j == json_loads(clean_text)
        parsed == IF j.ok THEN j ELSE literal_eval(clean_text)
    IN
    IF ~parsed.ok
    THEN [status |-> IF parsed.exc \in CaughtParseErrors THEN "malformed" ELSE "raised",
          plan |-> NoValue, detail |-> parsed.detail]
    ELSE IF ~validate_plan(parsed.val)
    THEN [status |-> "malformed", plan |-> NoValue, detail |-> DetailSchema]
    ELSE [status |-> "ok", plan |-> parsed.val, detail |-> ""]

\* agent.py 102
max_retries == 2

\* scanner.scan_project(): the context text, opaque to the loop
scan_project == <<"## Project Context">>

\* agent.py 95-99
BasePrompt(user_request) ==
    <<"SYSTEM_PROMPT", "\n\n">> \o scan_project \o <<"\n\n", "USER REQUEST: ">> \o user_request

StrictInstruction ==
    <<"CRITICAL: YOU MUST RETURN VALID STRICT JSON. NO MARKDOWN. NO COMMENTS.\n",
      "ESCAPE NEWLINES IN STRINGS.">>

\* agent.py 149-154
RetryPrompt(user_request, detail) ==
    BasePrompt(user_request)
        \o <<"\n\n", "PREVIOUS RESPONSE WAS INVALID JSON. ERROR: ", detail, "\n">>
        \o StrictInstruction

\* ------------------------------------------------------------------------
\* The inputs the model draws from
\* ------------------------------------------------------------------------
K(s) == [t |-> "str", s |-> s]
KInt == [t |-> "int", s |-> ""]
Rel(parts) == [t |-> "str", abs |-> FALSE, parts |-> parts]
Abs(parts) == [t |-> "str", abs |-> TRUE, parts |-> parts]
PInt == [t |-> "int", abs |-> FALSE, parts |-> <<>>]
Hi == [t |-> "str", c |-> <<"hi">>]
CInt == [t |-> "int", c |-> <<>>]
Act(kind, path, content) ==
    [t |-> "dict", action |-> kind, path |-> path, content |-> content]
NotAnAction == [t |-> "int", action |-> NoField, path |-> NoPath, content |-> NoContent]

CreateA == Act(K("create"), Rel(<<"a">>), Hi)
AppendA == Act(K("append"), Rel(<<"a">>), Hi)
WriteUp == Act(K("write"), Rel(<<"..", "x">>), Hi)
BadKind == Act(KInt, Rel(<<"a">>), Hi)

\* every batch of at most MaxActions of these is a plan the model may send
CoreActions == {CreateA, WriteUp, BadKind}

RECURSIVE SeqsUpTo(_, _)
SeqsUpTo(S, n) ==
    IF n = 0 THEN {<<>>}
    ELSE LET shorter == SeqsUpTo(S, n - 1) IN
         shorter \cup {Append(q, x) : q \in {r \in shorter : Len(r) = n - 1}, x \in S}

\* further batches, one for each remaining kind of action and failure
ExtraBatches ==
    { <<Act(K("write"), Rel(<<"d", "b">>), Hi)>>,
      <<Act(K("replace"), Rel(<<"d", "b">>), CInt)>>,
      <<Act(K("write"), Rel(<<".git", "c">>), Hi), CreateA>>,
      <<Act(K("write"), Rel(<<"ln", "x">>), Hi), CreateA>>,
      <<Act(K("write"), Abs(<<"etc", "x">>), Hi)>>,
      <<Act(K("write"), Rel(<<"..", "proj2", "x">>), Hi)>>,
      <<Act(K("write"), Abs(<<"home", "proj", "a">>), Hi)>>,
      <<Act(K("move"), Rel(<<"a">>), [t |-> "str", c |-> <<"b">>])>>,
      <<Act(K("delete"), Rel(<<"a">>), NoContent)>>,
      <<Act(K("write"), Rel(<<"a", "z">>), Hi), AppendA>>,
      <<CreateA, Act(K("write"), Rel(<<"a", "z">>), Hi)>>,
      <<Act(K("write"), PInt, Hi), CreateA>>,
      <<Act(K("Create"), Rel(<<"a">>), NoContent)>>,
      <<Act(K("write"), Rel(<<>>), Hi)>>,
      <<Act(K(""), Rel(<<"a">>), Hi)>>,
      <<Act(K("append"), Rel(<<"d">>), Hi)>>,
      <<CreateA, AppendA>> }

Batches == SeqsUpTo(CoreActions, MaxActions) \cup ExtraBatches

Summary == K("summary")

PlanOf(items) ==
    [t |-> "dict", plan |-> Summary, actions |-> [t |-> "list", items |-> items]]

\* parsed values that are not plans
BadValues ==
    { [t |-> "list", plan |-> NoField, actions |-> NoList],
      [t |-> "dict", plan |-> NoField, actions |-> [t |-> "list", items |-> <<CreateA>>]],
      [t |-> "dict", plan |-> KInt, actions |-> [t |-> "list", items |-> <<CreateA>>]],
      [t |-> "dict", plan |-> Summary, actions |-> NoList],
      [t |-> "dict", plan |-> Summary, actions |-> [t |-> "int", items |-> <<>>]],
      PlanOf(<<NotAnAction>>),
      PlanOf(<<Act(NoField, Rel(<<"a">>), Hi)>>),
      PlanOf(<<Act(K("create"), NoPath, Hi)>>) }

Body(syn, val) == Line("body", syn, val)
Blank == Line("blank", "", NoValue)
Fence(syn) == Line("fence", syn, NoValue)
Prose == Line("prose", "", NoValue)
JsonWord == Line("jsonword", "", NoValue)

ScenarioPlan == PlanOf(<<CreateA>>)

\* the plan of the README scenario; it is sent in a markdown fence only
ReadmePlan == PlanOf(<<Act(K("create"), Rel(<<"README.md">>), Hi)>>)

\* the reply texts the model may return
Responses ==
    {<<Body("json", PlanOf(b))>> : b \in Batches}
    \cup {<<Body("json", v)>> : v \in BadValues}
    \cup { <<Fence("json"), Body("json", ScenarioPlan), Fence("")>>,
           <<Fence("json"), Body("json", ReadmePlan), Fence("")>>,
           <<Fence(""), Blank, Body("pylit", ScenarioPlan), Fence("")>>,
           <<Fence("json"), Body("json", ScenarioPlan)>>,
           <<Blank, Body("pylit", ScenarioPlan), Blank>>,
           <<JsonWord, Body("json", ScenarioPlan)>>,
           <<Prose>>,
           <<Prose, Body("json", ScenarioPlan), Prose>>,
           <<Fence("json"), Body("json", ScenarioPlan), Fence(""), Prose>>,
           <<Body("call", NoValue)>>,
           <<Body("badkey", NoValue)>>,
           <<>> }

UserTexts == {<<"add a readme">>}

\* outcomes of subprocess.run: it raises, or returns an exit code and output
Ran(rc, out, err) == [raised |-> FALSE, rc |-> rc, out |-> out, err |-> err]
CannotRun == [raised |-> TRUE, rc |-> 0, out |-> <<>>, err |-> <<>>]

\* chat.py 235: on win32 the command is handed to the shell (shell=True);
\* the shell starts, does not find the executable, says so on stderr and
\* ends with exit code 1, and subprocess.run returns that
MsgNotRecognized == "is not recognized as an internal or external command"
ShellCannotFind == Ran(1, <<>>, <<MsgNotRecognized>>)

TestRuns ==
    { Ran(0, <<"2 passed">>, <<>>),
      Ran(1, <<"1 failed">>, <<"Error: assert 1 == 2">>),
      ShellCannotFind,
      CannotRun }

\* where the project may live
Roots == { <<"home", "proj">>, <<"srv", "build", "proj">>, <<"opt", "proj">> }

\* ------------------------------------------------------------------------
\* State
\* ------------------------------------------------------------------------
VARIABLES
    cwd,              \* Path.cwd().resolve(), the project root
    links,            \* symbolic links on disk: absolute path -> target
    disk,             \* [files, dirs]
    pc,               \* where start_chat_session is
    agent_history,    \* chat.py 145: the in-memory Session History
    saved_history,    \* what config.save_history persisted
    state_record,     \* what config.save_state persisted
    task_input,       \* the user text that started the current task
    current_request,  \* chat.py 175 / 257
    current_prompt,   \* agent.py 101 / 149
    attempt,          \* agent.py 104
    response_text,    \* agent.py 108
    plan,             \* chat.py 180
    results,          \* fs.py 78
    idx,              \* fs.py 80: position of the loop over the actions
    disk0,            \* the disk when the cycle began, then when its batch began
    requests,         \* number of generate_plan calls of the session
    calls,            \* the generate calls of the running plan request and how each ended
    log,              \* what the current edit-verify cycle did so far, from what opened it
    outcome           \* how the last task ended

vars == <<cwd, links, disk, pc, agent_history, saved_history, state_record,
          task_input, current_request, current_prompt, attempt, response_text,
          plan, results, idx, disk0, requests, calls, log, outcome>>

Ev(e, text, aux, n) == [e |-> e, text |-> text, aux |-> aux, n |-> n]
Mark(e) == Ev(e, <<>>, <<>>, 0)

NoState == [last_task |-> <<>>, status |-> "none", errors |-> <<>>]
EmptyDisk(wd) ==
    [files |-> <<>>,
     dirs |-> Prefixes(wd) \cup {<<"out">>, <<"etc">>}]

\* config.load_history(): the persisted turns
load_history == saved_history

Init ==
    /\ cwd \in Roots
    /\ links = (Append(cwd, "ln") :> <<"out">>)
    /\ disk = EmptyDisk(cwd)
    /\ pc = "Idle"
    /\ saved_history = <<>>
    /\ agent_history = load_history
    /\ state_record = NoState
    /\ task_input = <<>>
    /\ current_request = <<>>
    /\ current_prompt = <<>>
    /\ attempt = 0
    /\ response_text = <<>>
    /\ plan = NoValue
    /\ results = <<>>
    /\ idx = 1
    /\ disk0 = EmptyDisk(cwd)
    /\ requests = 0
    /\ calls = <<>>
    /\ log = <<>>
    /\ outcome = ""

\* ------------------------------------------------------------------------
\* chat.py : start_chat_session, the control loop
\* ------------------------------------------------------------------------
\* the task ends and the loop is back at the prompt (a break of the inner loop)
EndTask(how, events) ==
    /\ pc' = "Idle"
    /\ outcome' = how
    /\ log' = log \o events \o <<Mark(how)>>

\* an exception nobody catches leaves start_chat_session
Crash(events) ==
    /\ pc' = "Crashed"
    /\ outcome' = "Crashed"
    /\ log' = log \o events \o <<Mark("Crashed")>>

\* chat.py 173-180, agent.py 89-102: an agent task is typed at the prompt.
\* chat.py 180 also hands agent_history to generate_plan; the prompt built at
\* agent.py 95-99 is made of the request and the project context only.
UserTask(u) ==
    /\ pc = "Idle"
    /\ requests < MaxCycles
    /\ task_input' = u
    /\ current_request' = u
    /\ current_prompt' = BasePrompt(u)
    /\ attempt' = 0
    /\ requests' = requests + 1
    /\ pc' = "Planning"
    /\ outcome' = ""
    /\ log' = <<Mark("task"), Ev("request", u, <<>>, 0)>>
    /\ plan' = NoValue
    /\ results' = <<>>
    /\ idx' = 1
    /\ response_text' = <<>>
    /\ disk0' = disk
    /\ calls' = <<>>
    /\ UNCHANGED <<cwd, links, disk, agent_history, saved_history, state_record>>

\* a failed generate call is retried like a malformed reply
GenerateFails_retry ==
    /\ pc = "Planning"
    /\ calls' = calls \o <<Ev("generate", current_prompt, <<>>, attempt), Mark("model_error")>>
    /\ IF attempt < max_retries
       THEN /\ attempt' = attempt + 1
            /\ UNCHANGED <<pc, log, outcome>>
       ELSE /\ EndTask("Failed", <<Mark("model_error")>>)
            /\ UNCHANGED attempt
    /\ UNCHANGED <<idx, cwd, links, disk, disk0, agent_history, saved_history, state_record,
                   task_input, current_request, current_prompt, response_text,
                   plan, results, requests>>

\* agent.py 107-111, chat.py 182-184: generate raises, generate_plan returns None
GenerateFails ==
    /\ pc = "Planning"
    /\ calls' = calls \o <<Ev("generate", current_prompt, <<>>, attempt), Mark("model_error")>>
    /\ EndTask("Failed", <<Mark("model_error")>>)
    /\ UNCHANGED <<idx, cwd, links, disk, disk0, agent_history, saved_history, state_record,
                   task_input, current_request, current_prompt, attempt, response_text,
                   plan, results, requests>>

\* agent.py 108: generate returns a text
GenerateReplies(r) ==
    /\ pc = "Planning"
    /\ response_text' = r
    /\ pc' = "Validating"
    /\ calls' = Append(calls, Ev("generate", current_prompt, <<>>, attempt))
    /\ UNCHANGED <<idx, cwd, links, disk, disk0, agent_history, saved_history, state_record,
                   task_input, current_request, current_prompt, attempt,
                   plan, results, requests, log, outcome>>

\* generate_plan returns a plan: its locals are gone
Returned ==
    /\ calls' = <<>>
    /\ current_prompt' = <<>>
    /\ attempt' = 0
    /\ response_text' = <<>>

\* agent.py 141, chat.py 187-194: a plan with actions is shown for confirmation
PlanReturned ==
    /\ pc = "Validating"
    /\ Extract(response_text).status = "ok"
    /\ Extract(response_text).plan.actions.items # <<>>
    /\ plan' = Extract(response_text).plan
    /\ pc' = "AwaitingConfirmation"
    /\ log' = Append(log, Ev("plan", <<>>, <<>>, Len(Extract(response_text).plan.actions.items)))
    /\ Returned
    /\ UNCHANGED <<idx, cwd, links, disk, disk0, agent_history, saved_history, state_record,
                   task_input, current_request, results, requests, outcome>>

\* a plan without actions is shown for confirmation like any other
PlanEmpty_confirms ==
    /\ pc = "Validating"
    /\ Extract(response_text).status = "ok"
    /\ Extract(response_text).plan.actions.items = <<>>
    /\ plan' = Extract(response_text).plan
    /\ pc' = "AwaitingConfirmation"
    /\ log' = Append(log, Ev("plan", <<>>, <<>>, 0))
    /\ Returned
    /\ UNCHANGED <<idx, cwd, links, disk, disk0, agent_history, saved_history, state_record,
                   task_input, current_request, results, requests, outcome>>

\* chat.py 189-191: a plan without actions ends the task
PlanEmpty ==
    /\ pc = "Validating"
    /\ Extract(response_text).status = "ok"
    /\ Extract(response_text).plan.actions.items = <<>>
    /\ plan' = Extract(response_text).plan
    /\ EndTask("NoActions", <<Ev("plan", <<>>, <<>>, 0)>>)
    /\ Returned
    /\ UNCHANGED <<idx, cwd, links, disk, disk0, agent_history, saved_history, state_record,
                   task_input, current_request, results, requests>>

\* agent.py 143-154: a malformed reply with retries left
PlanRetry ==
    /\ pc = "Validating"
    /\ Extract(response_text).status = "malformed"
    /\ attempt < max_retries
    /\ attempt' = attempt + 1
    /\ current_prompt' = RetryPrompt(current_request, Extract(response_text).detail)
    /\ pc' = "Planning"
    /\ calls' = Append(calls, Ev("malformed", <<Extract(response_text).detail>>, <<>>, attempt))
    /\ UNCHANGED <<idx, cwd, links, disk, disk0, agent_history, saved_history, state_record,
                   task_input, current_request, response_text,
                   plan, results, requests, log, outcome>>

\* agent.py 155-158, chat.py 182-184: the budget is spent
PlanGiveUp ==
    /\ pc = "Validating"
    /\ Extract(response_text).status = "malformed"
    /\ attempt >= max_retries
    /\ calls' = Append(calls, Ev("malformed", <<Extract(response_text).detail>>, <<>>, attempt))
    /\ EndTask("Failed", <<Mark("malformed")>>)
    /\ UNCHANGED <<idx, cwd, links, disk, disk0, agent_history, saved_history, state_record,
                   task_input, current_request, current_prompt, attempt, response_text,
                   plan, results, requests>>

\* agent.py 135: an exception that line 143 does not catch
PlanRaises ==
    /\ pc = "Validating"
    /\ Extract(response_text).status = "raised"
    /\ calls' = Append(calls, Ev("raised", <<Extract(response_text).detail>>, <<>>, attempt))
    /\ Crash(<<>>)
    /\ UNCHANGED <<idx, cwd, links, disk, disk0, agent_history, saved_history, state_record,
                   task_input, current_request, current_prompt, attempt, response_text,
                   plan, results, requests>>

\* chat.py 194-197: the user accepts, apply_actions is called
ConfirmYes ==
    /\ pc = "AwaitingConfirmation"
    /\ pc' = "Applying"
    /\ results' = <<>>
    /\ idx' = 1
    /\ disk0' = disk
    /\ log' = log \o <<Mark("confirm_yes"), Ev("apply", <<>>, <<>>, Len(plan.actions.items))>>
    /\ UNCHANGED <<calls, cwd, links, disk, agent_history, saved_history, state_record,
                   task_input, current_request, current_prompt, attempt, response_text,
                   plan, requests, outcome>>

\* a declined plan is applied all the same
ConfirmNo_proceeds ==
    /\ pc = "AwaitingConfirmation"
    /\ pc' = "Applying"
    /\ results' = <<>>
    /\ idx' = 1
    /\ disk0' = disk
    /\ log' = log \o <<Mark("confirm_no"), Ev("apply", <<>>, <<>>, Len(plan.actions.items))>>
    /\ UNCHANGED <<calls, cwd, links, disk, agent_history, saved_history, state_record,
                   task_input, current_request, current_prompt, attempt, response_text,
                   plan, requests, outcome>>

\* chat.py 264-266: the user declines
ConfirmNo ==
    /\ pc = "AwaitingConfirmation"
    /\ EndTask("Cancelled", <<Mark("confirm_no")>>)
    /\ UNCHANGED <<idx, calls, cwd, links, disk, disk0, agent_history, saved_history, state_record,
                   task_input, current_request, current_prompt, attempt, response_text,
                   plan, results, requests>>

\* fs.py 80-118: one iteration of the loop of apply_actions
ApplyStep ==
    /\ pc = "Applying"
    /\ idx <= Len(plan.actions.items)
    /\ LET r == ApplyAction(links, cwd, disk, plan.actions.items[idx]) IN
       IF r.raised
       THEN /\ Crash(<<>>)
            /\ UNCHANGED <<disk, results, idx>>
       ELSE /\ disk' = r.disk
            /\ results' = Append(results, r.result)
            /\ idx' = idx + 1
            /\ UNCHANGED <<pc, log, outcome>>
    /\ UNCHANGED <<calls, cwd, links, disk0, agent_history, saved_history, state_record,
                   task_input, current_request, current_prompt, attempt, response_text,
                   plan, requests>>

Turn(role, content) == [role |-> role, content |-> content]

\* the success flag looks at the last result only
ApplyReturn_lastonly ==
    /\ pc = "Applying"
    /\ idx > Len(plan.actions.items)
    /\ LET success == results[Len(results)].status = "success"
           nerr == Cardinality({i \in 1..Len(results) : results[i].status # "success"})
           history == agent_history
                        \o <<Turn("user", current_request),
                             Turn("assistant", <<"Applied plan: ", plan.plan.s>>)>>
       IN
       /\ agent_history' = history
       /\ saved_history' = history
       /\ state_record' = [last_task |-> current_request, status |-> "applying", errors |-> <<>>]
       /\ IF success
          THEN /\ pc' = "Verifying"
               /\ log' = Append(log, Ev("results", <<>>, <<>>, nerr))
               /\ UNCHANGED outcome
          ELSE EndTask("Stopped", <<Ev("results", <<>>, <<>>, nerr)>>)
    /\ UNCHANGED <<idx, calls, cwd, links, disk, disk0,
                   task_input, current_request, current_prompt, attempt, response_text,
                   plan, results, requests>>

\* chat.py 199-218 and 221/262: apply_actions returned; report, record, branch
ApplyReturn ==
    /\ pc = "Applying"
    /\ idx > Len(plan.actions.items)
    /\ LET success == \A i \in 1..Len(results) : results[i].status = "success"
           nerr == Cardinality({i \in 1..Len(results) : results[i].status # "success"})
           history == agent_history
                        \o <<Turn("user", current_request),
                             Turn("assistant", <<"Applied plan: ", plan.plan.s>>)>>
       IN
       /\ agent_history' = history
       /\ saved_history' = history
       /\ state_record' = [last_task |-> current_request, status |-> "applying", errors |-> <<>>]
       /\ IF success
          THEN /\ pc' = "Verifying"
               /\ log' = Append(log, Ev("results", <<>>, <<>>, nerr))
               /\ UNCHANGED outcome
          ELSE EndTask("Stopped", <<Ev("results", <<>>, <<>>, nerr)>>)
    /\ UNCHANGED <<idx, calls, cwd, links, disk, disk0,
                   task_input, current_request, current_prompt, attempt, response_text,
                   plan, results, requests>>

\* chat.py 34-47: get_test_command, by marker file in the project root
get_test_command(d, wd) ==
    IF Exists(d, Append(wd, "pubspec.yaml")) THEN <<"flutter", "test">>
    ELSE IF Exists(d, Append(wd, "package.json")) THEN <<"npm", "test">>
    ELSE <<"python", "-m", "pytest", "-v">>

\* chat.py 251
ErrorLog(run) == run.out \o <<"\n">> \o run.err

\* "error" in line.lower(), for the output lines the model uses
HasErrorWord(line) == line \in {"Error: assert 1 == 2"}

\* chat.py 255
ErrorExcerpt(run) ==
    LET hits == SelectSeq(ErrorLog(run), HasErrorWord) IN
    SubSeq(hits, 1, IF Len(hits) < 5 THEN Len(hits) ELSE 5)

\* the correction request built from stdout alone
CorrectionRequest_stdout(run) ==
    <<"The previous changes caused test failures:\n\n">>
        \o run.out \o <<"\n\nPlease fix the errors.">>

\* chat.py 257
CorrectionRequest(run) ==
    <<"The previous changes caused test failures:\n\n">>
        \o ErrorLog(run) \o <<"\n\nPlease fix the errors.">>

Executed == Ev("execute", get_test_command(disk, cwd), <<>>, 0)

\* chat.py 259-261: subprocess.run raises
VerifyUnavailable ==
    /\ pc = "Verifying"
    /\ EndTask("Skipped", <<Executed, Mark("verify_unavailable")>>)
    /\ UNCHANGED <<idx, calls, cwd, links, disk, disk0, agent_history, saved_history, state_record,
                   task_input, current_request, current_prompt, attempt, response_text,
                   plan, results, requests>>

\* passing tests start a fresh conversation
VerifyPasses_forgets(run) ==
    /\ pc = "Verifying"
    /\ ~run.raised
    /\ run.rc = 0
    /\ state_record' = [last_task |-> current_request, status |-> "completed", errors |-> <<>>]
    /\ agent_history' = <<>>
    /\ saved_history' = <<>>
    /\ EndTask("Succeeded", <<Executed, Ev("verify", run.out, run.err, run.rc)>>)
    /\ UNCHANGED <<idx, calls, cwd, links, disk, disk0,
                   task_input, current_request, current_prompt, attempt, response_text,
                   plan, results, requests>>

\* chat.py 241-248: the tests pass
VerifyPasses(run) ==
    /\ pc = "Verifying"
    /\ ~run.raised
    /\ run.rc = 0
    /\ state_record' = [last_task |-> current_request, status |-> "completed", errors |-> <<>>]
    /\ EndTask("Succeeded", <<Executed, Ev("verify", run.out, run.err, run.rc)>>)
    /\ UNCHANGED <<idx, calls, cwd, links, disk, disk0, agent_history, saved_history,
                   task_input, current_request, current_prompt, attempt, response_text,
                   plan, results, requests>>

\* after a number of failed runs the loop gives the task up
Correct_capped(run) ==
    /\ pc = "Verifying"
    /\ ~run.raised
    /\ run.rc # 0
    /\ state_record' = [last_task |-> current_request, status |-> "failed",
                        errors |-> ErrorExcerpt(run)]
    /\ IF requests < 2
       THEN /\ current_request' = CorrectionRequest(run)
            /\ current_prompt' = BasePrompt(CorrectionRequest(run))
            /\ requests' = requests + 1
            /\ pc' = "Planning"
            /\ log' = <<log[Len(log)], Executed, Ev("verify", run.out, run.err, run.rc),
                        Mark("Correcting"), Ev("request", CorrectionRequest(run), <<>>, 0)>>
            /\ plan' = NoValue
            /\ results' = <<>>
            /\ idx' = 1
            /\ disk0' = disk
            /\ UNCHANGED outcome
       ELSE /\ EndTask("Failed", <<Executed, Ev("verify", run.out, run.err, run.rc)>>)
            /\ UNCHANGED <<current_request, current_prompt, requests, plan, results, idx, disk0>>
    /\ attempt' = 0
    /\ response_text' = <<>>
    /\ calls' = <<>>
    /\ UNCHANGED <<cwd, links, disk, agent_history, saved_history, task_input>>

\* chat.py 249-258 then 180 and agent.py 89-102: the tests fail, the loop
\* asks for a corrected plan (plan, results and response_text are not read
\* again before they are reassigned); the code keeps no count of the cycles
Correct(run) ==
    /\ pc = "Verifying"
    /\ ~run.raised
    /\ run.rc # 0
    /\ state_record' = [last_task |-> current_request, status |-> "failed",
                        errors |-> ErrorExcerpt(run)]
    /\ current_request' = CorrectionRequest(run)
    /\ current_prompt' = BasePrompt(CorrectionRequest(run))
    /\ attempt' = 0
    /\ requests' = requests + 1
    /\ pc' = "Planning"
    /\ log' = <<log[Len(log)], Executed, Ev("verify", run.out, run.err, run.rc),
                Mark("Correcting"), Ev("request", CorrectionRequest(run), <<>>, 0)>>
    /\ plan' = NoValue
    /\ results' = <<>>
    /\ idx' = 1
    /\ response_text' = <<>>
    /\ calls' = <<>>
    /\ disk0' = disk
    /\ UNCHANGED <<cwd, links, disk, agent_history, saved_history,
                   task_input, outcome>>

\* the failed run of a session, whose plan requests the model bounds
VerifyFails(run) ==
    /\ requests < MaxCycles
    /\ Correct(run)

\* config.clear_history(): the persisted turns are dropped
clear_history == saved_history' = <<>>

\* chat.py 115-118 and 161-163: /newchat
NewChat ==
    /\ pc = "Idle"
    /\ clear_history
    /\ agent_history' = <<>>
    /\ UNCHANGED <<idx, calls, cwd, links, disk, disk0, pc, state_record,
                   task_input, current_request, current_prompt, attempt, response_text,
                   plan, results, requests, log, outcome>>

\* the session function returns: its locals are gone, the disk, the
\* persisted files and the batch that was running remain
Leave(how) ==
    /\ pc' = "Exited"
    /\ outcome' = how
    /\ log' = <<Ev(how, <<pc>>, <<>>, 0)>>
    /\ task_input' = <<>>
    /\ current_request' = <<>>
    /\ current_prompt' = <<>>
    /\ attempt' = 0
    /\ response_text' = <<>>
    /\ calls' = <<>>
    /\ plan' = IF pc = "Applying" THEN plan ELSE NoValue
    /\ results' = IF pc = "Applying" THEN results ELSE <<>>
    /\ idx' = IF pc = "Applying" THEN idx ELSE 1
    /\ UNCHANGED <<cwd, links, disk, disk0, agent_history, saved_history, state_record, requests>>

\* chat.py 59-61 and 168-170: exit, quit or /exit typed at the prompt
Exit ==
    /\ pc = "Idle"
    /\ Leave("Exit")

\* chat.py 290-295: KeyboardInterrupt is raised wherever the session is
Interrupt ==
    /\ pc \in {"Idle", "Planning", "Validating", "AwaitingConfirmation", "Applying", "Verifying"}
    /\ Leave("Interrupted")

Next ==
    \/ \E u \in UserTexts : UserTask(u)
    \/ GenerateFails
    \/ \E r \in Responses : GenerateReplies(r)
    \/ PlanReturned
    \/ PlanEmpty
    \/ PlanRetry
    \/ PlanGiveUp
    \/ PlanRaises
    \/ ConfirmYes
    \/ ConfirmNo
    \/ ApplyStep
    \/ ApplyReturn
    \/ VerifyUnavailable
    \/ \E run \in TestRuns : VerifyPasses(run)
    \/ \E run \in TestRuns : VerifyFails(run)
    \/ NewChat
    \/ Exit
    \/ Interrupt

Spec == Init /\ [][Next]_vars

\* ------------------------------------------------------------------------
\* fs.py : apply_actions called on its own, one action at a time, on the
\* project as the calls before left it
\* ------------------------------------------------------------------------
\* the paths the Sandbox accepts in /home/proj, and some it refuses
InsidePaths == {Rel(<<"a">>), Rel(<<"d", "b">>), Rel(<<"a", "z">>), Rel(<<"d">>)}

RefusedPaths == {Rel(<<".git", "c">>), Rel(<<"..", "x">>), Rel(<<"ln", "x">>), Abs(<<"etc">>)}

ToD == [t |-> "str", c |-> <<"d">>]

ExecActions ==
    {Act(K(k), p, Hi) : k \in {"create", "write", "replace", "append"}, p \in InsidePaths}
    \cup {Act(K(k), p, Hi) : k \in {"create", "write", "append"}, p \in RefusedPaths}
    \cup {Act(K(k), Rel(<<"a">>), c) : k \in {"create", "write", "append"}, c \in {CInt, NoContent}}
    \cup { Act(K("create"), Rel(<<"d", "b">>), CInt),
           Act(K("Create"), Rel(<<"a">>), Hi),
           Act(K("WRITE"), Rel(<<"a">>), Hi),
           Act(K("write"), Rel(<<>>), Hi),
           Act(K("write"), PInt, Hi),
           Act(K("move"), Rel(<<"a">>), ToD),
           Act(K("move"), Rel(<<"d", "b">>), Hi),
           Act(K("delete"), Rel(<<"a">>), NoContent),
           BadKind }

ExecInit ==
    /\ cwd \in Roots
    /\ links = (Append(cwd, "ln") :> <<"out">>)
    /\ disk = EmptyDisk(cwd)
    /\ pc = "Applying"
    /\ saved_history = <<>>
    /\ agent_history = <<>>
    /\ state_record = NoState
    /\ task_input = <<>>
    /\ current_request = <<>>
    /\ current_prompt = <<>>
    /\ attempt = 0
    /\ response_text = <<>>
    /\ plan = PlanOf(<<>>)
    /\ results = <<>>
    /\ idx = 1
    /\ disk0 = EmptyDisk(cwd)
    /\ requests = 0
    /\ calls = <<>>
    /\ log = <<>>
    /\ outcome = ""

\* fs.py 68-120: apply_actions([a]) on the current disk
ExecApply(a) ==
    /\ pc = "Applying"
    /\ LET r == ApplyAction(links, cwd, disk, a) IN
       /\ \A f \in DOMAIN r.disk.files : Len(r.disk.files[f]) <= MaxText
       /\ plan' = PlanOf(<<a>>)
       /\ disk0' = disk
       /\ disk' = r.disk
       /\ IF r.raised
          THEN /\ pc' = "Crashed"
               /\ results' = <<>>
               /\ idx' = 1
          ELSE /\ pc' = "Applying"
               /\ results' = <<r.result>>
               /\ idx' = 2
    /\ UNCHANGED <<cwd, links, agent_history, saved_history, state_record, task_input,
                   current_request, current_prompt, attempt, response_text,
                   requests, calls, log, outcome>>

ExecNext == \E a \in ExecActions : ExecApply(a)

ExecSpec == ExecInit /\ [][ExecNext]_vars

\* ------------------------------------------------------------------------
\* chat.py 177-266 : one task whose every plan is well formed, not empty and
\* accepted, whose every action succeeds and whose every test run fails
\* ------------------------------------------------------------------------
WriteA == Act(K("write"), Rel(<<"a">>), Hi)
WriteDB == Act(K("write"), Rel(<<"d", "b">>), Hi)

\* plans of writes to paths the Sandbox accepts in /home/proj
CycleResponses ==
    { <<Body("json", PlanOf(<<WriteA>>))>>,
      <<Body("json", PlanOf(<<WriteDB>>))>>,
      <<Fence("json"), Body("json", PlanOf(<<WriteA, WriteDB>>)), Fence("")>> }

FailingRuns == {run \in TestRuns : ~run.raised /\ run.rc # 0}

CycleInit ==
    /\ Init
    /\ cwd = <<"home", "proj">>

CycleNext ==
    \/ \E u \in UserTexts : UserTask(u)
    \/ \E r \in CycleResponses : GenerateReplies(r)
    \/ PlanReturned
    \/ ConfirmYes
    \/ ApplyStep
    \/ ApplyReturn
    \/ \E run \in FailingRuns : requests < MaxRounds /\ Correct(run)

CycleSpec == CycleInit /\ [][CycleNext]_vars

TypeOK ==
    /\ pc \in {"Idle", "Planning", "Validating", "AwaitingConfirmation", "Applying",
               "Verifying", "Exited", "Crashed"}
    /\ attempt \in 0..max_retries
    /\ requests \in 0..MaxCycles
    /\ idx \in 1..(MaxActions + 2)
    /\ pc = "Applying" => idx <= Len(plan.actions.items) + 1

\* ------------------------------------------------------------------------
\* Properties
\* ------------------------------------------------------------------------
\* t is the directory root or lies below it
Under(t, root) == Len(t) >= Len(root) /\ SubSeq(t, 1, Len(root)) = root

NoIgnoredPart(t) == \A i \in 1..Len(t) : t[i] \notin IGNORED_DIRS

Items == plan.actions.items

\* C1: whatever batches were applied, every file and every directory that
\* exists now and did not exist at the start lies under the project root, has
\* no component naming an ignored directory, and every file is at a path the
\* Sandbox accepts; nothing outside changed.
C1_MutationsStayInSandbox ==
    /\ \A p \in DOMAIN disk.files :
          Under(p, cwd) /\ NoIgnoredPart(p) /\ validate_path(links, cwd, Abs(p)).ok
    /\ \A p \in disk.dirs \ EmptyDisk(cwd).dirs : Under(p, cwd) /\ NoIgnoredPart(p)

\* a batch with a path escaping the root and one in an ignored directory or
\* behind a link has run, and a file was written by it
C1_Witness ==
    /\ pc = "Applying"
    /\ idx > Len(Items)
    /\ \E i \in 1..Len(results) : results[i].message \in {MsgOutside, MsgIgnored}
    /\ \E i \in 1..Len(results) : results[i].status = "success"
    /\ disk.files # disk0.files

\* C2: a path whose resolved form is neither the root nor below it is
\* refused with UnsafePathError, for relative and for absolute paths, and the
\* executor reports the refusal.
C2_OutsideRootIsRejected ==
    \A i \in 1..Len(Items) :
        (Items[i].path.t = "str" /\ ~Under(Resolve(links, cwd, Items[i].path), cwd))
        => /\ validate_path(links, cwd, Items[i].path).exc = "UnsafePathError"
           /\ ~validate_path(links, cwd, Items[i].path).ok
           /\ (pc \in {"Applying", "Verifying", "Idle"} /\ i < idx /\ i <= Len(results))
                 => (results[i].status = "error" /\ results[i].message = MsgOutside)

\* the executor has refused a relative path that climbs out through ".."
C2_Witness ==
    \E i \in 1..Len(Items) :
        /\ pc = "Applying" /\ i < idx
        /\ Items[i].path.t = "str" /\ ~Items[i].path.abs
        /\ \E k \in 1..Len(Items[i].path.parts) : Items[i].path.parts[k] = ".."
        /\ ~Under(Resolve(links, cwd, Items[i].path), cwd)
        /\ results[i].message = MsgOutside

\* the cycle's batch was applied and apply_actions returned
BatchReturned ==
    \/ pc = "Verifying"
    \/ pc = "Idle" /\ outcome \in {"Stopped", "Succeeded", "Skipped"}

\* an exception left apply_actions
BatchRaised == pc = "Crashed" /\ Len(log) > 1 /\ log[Len(log) - 1].e = "apply"

Failures == {i \in 1..Len(results) : results[i].status # "success"}

\* C3: in every cycle, correction cycles included, apply_actions is called
\* only right after the user accepted the plan of that cycle; after a refusal
\* the task is Cancelled: nothing applied, nothing verified, no plan requested.
C3_ApplyOnlyAfterAccept ==
    /\ \A i \in 1..Len(log) : log[i].e = "apply"
          => i > 2 /\ log[i - 1].e = "confirm_yes" /\ log[i - 2].e = "plan"
    /\ pc = "Applying" => log[Len(log)].e = "apply"
    /\ (pc # "Exited" /\ (disk # disk0 \/ results # <<>>))
          => \E i \in 1..Len(log) : log[i].e = "apply"
    /\ \A i \in 1..Len(log) : log[i].e = "confirm_no"
          => /\ i > 2 /\ log[i - 1].e = "plan" /\ log[i - 2].e = "request"
             /\ Len(log) = i + 1 /\ log[i + 1].e = "Cancelled"
             /\ pc = "Idle" /\ outcome = "Cancelled"
             /\ disk = disk0 /\ results = <<>> /\ calls = <<>>

\* the user declined the plan of a correction cycle
C3_Witness ==
    /\ Len(log) > 3 /\ log[3].e = "verify"
    /\ \E i \in 1..Len(log) : log[i].e = "confirm_no"
    /\ DOMAIN disk.files # {}

\* C4: a verification run follows an apply without errors; exit code 0 ends
\* the task Succeeded with no plan request; another exit code leads through
\* Correcting to a new plan request whose text, and every prompt sent for it,
\* contains the captured stdout and the captured stderr.
C4_ExitCodeDecides ==
    /\ \A i \in 1..Len(log) : log[i].e = "verify"
          => i > 2 /\ log[i - 1].e = "execute" /\ log[i - 2].e = "results" /\ log[i - 2].n = 0
    /\ \A i \in 1..Len(log) : (log[i].e = "verify" /\ log[i].n = 0)
          => /\ Len(log) = i + 1 /\ log[i + 1].e = "Succeeded"
             /\ pc = "Idle" /\ outcome = "Succeeded" /\ calls = <<>>
    /\ \A i \in 1..Len(log) : (log[i].e = "verify" /\ log[i].n # 0)
          => /\ Len(log) >= i + 2
             /\ log[i + 1].e = "Correcting"
             /\ log[i + 2].e = "request"
             /\ Contains(log[i + 2].text, log[i].text)
             /\ Contains(log[i + 2].text, log[i].aux)
             /\ \A j \in 1..Len(calls) : calls[j].e = "generate"
                   => Contains(calls[j].text, log[i].text) /\ Contains(calls[j].text, log[i].aux)
             /\ Len(log) = i + 2
                   => /\ pc \in {"Planning", "Validating"}
                      /\ current_request = log[i + 2].text
                      /\ Contains(current_prompt, log[i].text)
                      /\ Contains(current_prompt, log[i].aux)

\* the tests failed and the correction request is at its second generate call
C4_Witness ==
    /\ pc = "Validating"
    /\ attempt = 1
    /\ Len(log) > 2 /\ log[3].e = "verify" /\ log[3].n # 0 /\ log[3].aux # <<>>

\* C6: a generate call that raises ends the plan request at once: it is the
\* last call of the request whatever attempt it was, the task is Failed and
\* the disk is as it was.
C6_ModelErrorIsFinal ==
    \A j \in 1..Len(calls) : calls[j].e = "model_error"
        => /\ j = Len(calls) /\ j > 1 /\ calls[j - 1].e = "generate"
           /\ Cardinality({k \in 1..Len(calls) : calls[k].e = "generate"}) = calls[j - 1].n + 1
           /\ pc = "Idle" /\ outcome = "Failed"
           /\ Len(log) > 2
           /\ log[Len(log)].e = "Failed"
           /\ log[Len(log) - 1].e = "model_error"
           /\ log[Len(log) - 2].e = "request"
           /\ disk = disk0 /\ results = <<>>

\* generate raised on the second attempt, with one retry still unused
C6_Witness ==
    /\ Len(calls) = 4
    /\ calls[2].e = "malformed"
    /\ calls[4].e = "model_error"
    /\ calls[3].n < max_retries

\* C7: a batch with an Error result is reported and the task stops: no
\* verification, no correction request; verification runs only after a
\* non-empty batch whose results are all Success.
C7_ErrorsSkipVerification ==
    /\ \A i \in 2..Len(log) : log[i].e = "results" => log[i].n = Cardinality(Failures)
    /\ \A i \in 1..Len(log) : (log[i].e = "results" /\ log[i].n > 0)
          => /\ Len(log) = i + 1 /\ log[i + 1].e = "Stopped"
             /\ pc = "Idle" /\ outcome = "Stopped" /\ calls = <<>>
    /\ \A i \in 1..Len(log) : log[i].e \in {"execute", "verify", "verify_unavailable"}
          => \E k \in 1..(i - 1) : log[k].e = "results" /\ log[k].n = 0
                                     /\ \A m \in (k + 1)..(i - 1) : log[m].e = "execute"
    /\ pc = "Verifying"
          => /\ Len(Items) > 0 /\ Len(results) = Len(Items)
             /\ \A i \in 1..Len(results) : results[i].status = "success"

\* a batch ended with one action applied and another one failed
C7_Witness ==
    /\ pc = "Idle" /\ outcome = "Stopped"
    /\ \E i \in 1..Len(results) : results[i].status = "success"
    /\ \E i \in 1..Len(results) : results[i].status = "error"
    /\ disk # disk0

Generates == {k \in 1..Len(calls) : calls[k].e = "generate"}

\* the running plan request is over (generate_plan returned or was left)
RequestOver == pc \notin {"Planning", "Validating", "Exited"}

\* C5: a plan request all of whose replies fail extraction makes at most
\* max_retries + 1 generate calls and then ends in Failed; every retry prompt
\* carries the detail of the error just before it and the stricter-format
\* instruction.
C5_MalformedEndsInFailed ==
    /\ Cardinality(Generates) <= max_retries + 1
    /\ \A j \in 2..Len(calls) : calls[j].e = "generate"
          => /\ calls[j - 1].e = "malformed"
             /\ Contains(calls[j].text, calls[j - 1].text)
             /\ Contains(calls[j].text, StrictInstruction)
    /\ (RequestOver /\ calls # <<>> /\ calls[Len(calls)].e \in {"malformed", "raised"})
          => /\ Cardinality(Generates) = max_retries + 1
             /\ pc = "Idle" /\ outcome = "Failed"

\* the same with the replies limited to those whose extraction error is of a
\* class agent.py 143 catches
C5_BudgetForCaughtErrors ==
    /\ Cardinality(Generates) <= max_retries + 1
    /\ \A j \in 2..Len(calls) : calls[j].e = "generate"
          => /\ calls[j - 1].e = "malformed"
             /\ Contains(calls[j].text, calls[j - 1].text)
             /\ Contains(calls[j].text, StrictInstruction)
    /\ (RequestOver /\ calls # <<>> /\ calls[Len(calls)].e = "malformed")
          => /\ Cardinality(Generates) = max_retries + 1
             /\ pc = "Idle" /\ outcome = "Failed"

\* C8: for a batch that passed validate_plan, apply_actions returns its
\* results and no exception leaves it.
C8_NoExceptionLeavesApply == ~BatchRaised

\* the batch started at disk0, computed as one call
WholeBatch == apply_actions(links, cwd, disk0, Items)

KindsAreStr(n) == \A k \in 1..n : Items[k].action.t = "str"

\* C9: the list apply_actions returns has one result per action, in the
\* order of the actions, each carrying the path of its action, also when
\* actions fail; while the loop runs the results are such a prefix.
C9_ResultsMatchActions ==
    /\ pc = "Applying"
          => /\ Len(results) = idx - 1
             /\ \A i \in 1..Len(results) : results[i].path = Items[i].path
    /\ BatchReturned
          => /\ Len(results) = Len(Items)
             /\ \A i \in 1..Len(Items) : results[i].path = Items[i].path
             /\ ~WholeBatch.raised
             /\ WholeBatch.results = results
             /\ WholeBatch.disk = disk

\* a batch of two or more actions returned with a failure and a success
C9_Witness ==
    /\ BatchReturned
    /\ Len(Items) >= 2
    /\ \E i \in 1..Len(results) : results[i].status = "error"
    /\ \E i \in 1..Len(results) : results[i].status = "success"

\* the Sandbox refuses the path of action i, which the loop reaches
Rejected(i) ==
    /\ KindsAreStr(i)
    /\ validate_path(links, cwd, PathOf(Items[i])).exc = "UnsafePathError"

\* C10: an action with a refused path gets an Error result with the
\* Sandbox's message, and the rest of the batch runs as if that action were
\* not in it: same results, same disk, same way of ending.
C10_RejectedPathDoesNotAbort ==
    /\ pc = "Applying"
          => \A i \in 1..(idx - 1) : Rejected(i)
                => /\ i <= Len(results)
                   /\ results[i].status = "error"
                   /\ results[i].message = validate_path(links, cwd, PathOf(Items[i])).msg
    /\ (BatchReturned \/ BatchRaised)
          => \A i \in 1..Len(Items) : Rejected(i)
                => /\ i <= Len(results)
                   /\ results[i].status = "error"
                   /\ results[i].message = validate_path(links, cwd, PathOf(Items[i])).msg
                   /\ apply_actions(links, cwd, disk0, RemoveAt(Items, i)).disk = disk
                   /\ apply_actions(links, cwd, disk0, RemoveAt(Items, i)).results
                         = RemoveAt(results, i)
                   /\ apply_actions(links, cwd, disk0, RemoveAt(Items, i)).raised = BatchRaised

\* a refused action was followed by one that wrote a file
C10_Witness ==
    /\ BatchReturned
    /\ \E i \in 1..(Len(Items) - 1) :
          /\ Rejected(i)
          /\ results[i].status = "error"
          /\ results[i + 1].status = "success"
    /\ disk.files # disk0.files


\* ------------------------------------------------------------------------
\* The executor's actions one by one: the action the loop has just run
\* ------------------------------------------------------------------------
HasRun == pc = "Applying" /\ idx > 1

LastAction == Items[idx - 1]

LastResult == results[idx - 1]

\* the disk the last action found
Pre == apply_actions(links, cwd, disk0, SubSeq(Items, 1, idx - 2)).disk

KindOf(a) == IF a.action.t = "str" THEN Lower(a.action.s) ELSE ""

\* what the path of a names once resolved
TargetOf(a) == Resolve(links, cwd, PathOf(a))

Accepted(a) == validate_path(links, cwd, PathOf(a)).ok

\* the parent of the target can be made: no file stands where a directory must
ParentCanBeMade(d, a) == \A q \in Prefixes(Front(TargetOf(a))) : q \notin DOMAIN d.files

\* C11: a create whose path exists gets an Error result and leaves the disk,
\* so the content of the file, as it was; a create whose path does not exist
\* (accepted path, text content, parent not blocked by a file) makes the
\* missing parent directories and writes the content.
C11_CreateIsCollisionSafe ==
    (HasRun /\ KindOf(LastAction) = "create" /\ PathOf(LastAction).t = "str")
    => /\ Exists(Pre, TargetOf(LastAction))
             => /\ LastResult.status = "error"
                /\ disk = Pre
                /\ Accepted(LastAction) => LastResult.message = MsgExists
       /\ (~Exists(Pre, TargetOf(LastAction)) /\ Accepted(LastAction)
             /\ ContentOf(LastAction).t = "str" /\ ParentCanBeMade(Pre, LastAction))
             => /\ LastResult.status = "success"
                /\ disk.files = (TargetOf(LastAction) :> ContentOf(LastAction).c) @@ Pre.files
                /\ disk.dirs = Pre.dirs \cup Prefixes(Front(TargetOf(LastAction)))

\* a create was refused on a file that holds text, and one made a directory
C11_Witness ==
    /\ HasRun /\ KindOf(LastAction) = "create"
    /\ Accepted(LastAction)
    /\ LastResult.message = MsgExists
    /\ TargetOf(LastAction) \in DOMAIN disk.files
    /\ disk.files[TargetOf(LastAction)] # ContentOf(LastAction).c
    /\ \E p \in DOMAIN disk.files : Len(p) > Len(cwd) + 1


\* the last action can do its work: accepted path, text content, a parent
\* that can be made, and no directory where the file goes
Writable(d, a) ==
    /\ PathOf(a).t = "str" /\ Accepted(a) /\ ContentOf(a).t = "str"
    /\ ParentCanBeMade(d, a)
    /\ TargetOf(a) \notin d.dirs

\* C12: a write or replace applied again right after itself gives the result
\* it gave the first time and leaves files and directories as the first
\* application left them; where it can do its work both results are Success
\* and the file holds the content, whether or not the target existed before.
C12_WriteIsIdempotent ==
    [][ (HasRun /\ KindOf(LastAction) \in {"write", "replace"}
           /\ pc' = "Applying" /\ plan' = plan)
        => /\ disk' = disk
           /\ results' = results
           /\ Writable(Pre, LastAction)
                 => /\ LastResult.status = "success"
                    /\ results'[1].status = "success"
                    /\ disk'.files[TargetOf(LastAction)] = ContentOf(LastAction).c
                    /\ disk.files = (TargetOf(LastAction) :> ContentOf(LastAction).c) @@ Pre.files
    ]_vars

\* a write replaced other text, or made a new file below a new directory,
\* and was applied once more
C12_Witness ==
    /\ HasRun /\ KindOf(LastAction) \in {"write", "replace"}
    /\ LastResult.status = "success"
    /\ disk0 = disk
    /\ Len(TargetOf(LastAction)) > Len(cwd) + 1


\* C13: an append whose target does not exist gets an Error result and the
\* disk stays as it was, no file made; an append to a file leaves it holding
\* what it held followed by the action's content, everything else unchanged;
\* an append that fails on an existing target changes nothing either.
C13_AppendExtendsOrFails ==
    (HasRun /\ KindOf(LastAction) = "append" /\ PathOf(LastAction).t = "str")
    => /\ ~Exists(Pre, TargetOf(LastAction))
             => /\ LastResult.status = "error"
                /\ disk = Pre
                /\ Accepted(LastAction) => LastResult.message = MsgNoFile
       /\ (TargetOf(LastAction) \in DOMAIN Pre.files /\ Accepted(LastAction)
             /\ ContentOf(LastAction).t = "str")
             => /\ LastResult.status = "success"
                /\ disk.dirs = Pre.dirs
                /\ DOMAIN disk.files = DOMAIN Pre.files
                /\ \A f \in DOMAIN Pre.files :
                      disk.files[f] = IF f = TargetOf(LastAction)
                                      THEN Pre.files[f] \o ContentOf(LastAction).c
                                      ELSE Pre.files[f]
                /\ SubSeq(disk.files[TargetOf(LastAction)], 1,
                          Len(Pre.files[TargetOf(LastAction)]))
                      = Pre.files[TargetOf(LastAction)]
       /\ LastResult.status = "error" => disk = Pre

\* an append added text to a file that held text
C13_Witness ==
    /\ HasRun /\ KindOf(LastAction) = "append"
    /\ LastResult.status = "success"
    /\ Pre.files[TargetOf(LastAction)] # <<>>
    /\ Len(disk.files[TargetOf(LastAction)]) > Len(Pre.files[TargetOf(LastAction)])


\* the components of t below the root
Below(t, root) == SubSeq(t, Len(root) + 1, Len(t))

\* C14: wherever the project root lies, a path that resolves to the root or
\* below it, with no ignored name among its components below the root, is
\* accepted by validate_path, which returns its absolute form under the root.
C14_InsidePathsAreAccepted ==
    \A i \in 1..Len(Items) :
        (Items[i].t = "dict" /\ Items[i].path.t = "str"
            /\ Under(TargetOf(Items[i]), cwd)
            /\ NoIgnoredPart(Below(TargetOf(Items[i]), cwd)))
        => /\ validate_path(links, cwd, Items[i].path).ok
           /\ validate_path(links, cwd, Items[i].path).target = TargetOf(Items[i])
           /\ Under(validate_path(links, cwd, Items[i].path).target, cwd)


\* ------------------------------------------------------------------------
\* Extraction
\* ------------------------------------------------------------------------
\* the text is one well-formed plan with nothing but commentary and blank
\* lines around it
PlanAmidProse(text) ==
    /\ \A i \in 1..Len(text) : text[i].k \in {"prose", "blank", "body"}
    /\ Cardinality({i \in 1..Len(text) : text[i].k = "body"}) = 1
    /\ \A i \in 1..Len(text) : text[i].k = "body"
          => text[i].syn \in {"json", "pylit"} /\ validate_plan(text[i].val)

PlanIn(text) == (CHOOSE l \in {text[i] : i \in 1..Len(text)} : l.k = "body").val

HasProse(text) == \E i \in 1..Len(text) : text[i].k = "prose"

Fenced(text) ==
    /\ Len(text) = 3
    /\ text[1].k = "fence"
    /\ text[2].k = "body" /\ text[2].syn = "json"
    /\ text[3].k = "fence" /\ text[3].syn = ""

\* the Sandbox accepts the project root itself
RootIsAccepted == validate_path(links, cwd, EmptyPath).ok

ReadmeFile == Append(cwd, "README.md")

\* C16: a strict-JSON plan between an opening and a closing fence extracts
\* as the same text without the fence does, to that plan; the README plan,
\* which arrives fenced, applied in an empty project whose root the Sandbox
\* accepts, gives exactly one result, a Success, and the one new file
\* README.md holding hi.
C16_FencedPlanExtractsAndApplies ==
    /\ (pc = "Validating" /\ Fenced(response_text))
          => /\ Extract(response_text) = Extract(<<response_text[2]>>)
             /\ validate_plan(response_text[2].val)
                   => /\ Extract(response_text).status = "ok"
                      /\ Extract(response_text).plan = response_text[2].val
    /\ (BatchReturned /\ plan = ReadmePlan /\ disk0 = EmptyDisk(cwd) /\ RootIsAccepted)
          => /\ Len(results) = 1
             /\ results[1].status = "success"
             /\ results[1].path = Rel(<<"README.md">>)
             /\ disk.files = (ReadmeFile :> <<"hi">>)
             /\ disk.dirs = disk0.dirs

\* the fenced README plan was applied in the empty project
C16_Witness ==
    /\ pc = "Verifying"
    /\ plan = ReadmePlan
    /\ disk0 = EmptyDisk(cwd)
    /\ ReadmeFile \in DOMAIN disk.files
    /\ results[1].status = "success"


\* an object with a string summary and a list of objects that each have a
\* kind field and a path field, of whatever value
HasFields(v) ==
    /\ v.t = "dict"
    /\ v.plan.t = "str"
    /\ v.actions.t = "list"
    /\ \A i \in 1..Len(v.actions.items) :
          /\ v.actions.items[i].t = "dict"
          /\ v.actions.items[i].action.t # "missing"
          /\ v.actions.items[i].path.t # "missing"

\* the text is one value that parses, and nothing else
OneValue(text) == Len(text) = 1 /\ text[1].k = "body" /\ text[1].syn \in {"json", "pylit"}

EmptyKind(a) == a.action = K("")

EmptyPathField(a) == a.path = EmptyPath

C18_HistoryOnSuccessOnly ==
    [][ /\ Len(agent_history') > Len(agent_history)
              => pc' = "Idle" /\ outcome' = "Succeeded"
        /\ (state_record' # state_record /\ state_record'.status = "completed")
              => /\ pc = "Verifying" /\ outcome' = "Succeeded"
                 /\ log'[Len(log') - 1].e = "verify" /\ log'[Len(log') - 1].n = 0
    ]_vars

\* the part of C18 about the status record alone
C18_CompletedOnlyAfterExitZero ==
    [][ (state_record' # state_record /\ state_record'.status = "completed")
              => /\ pc = "Verifying" /\ outcome' = "Succeeded"
                 /\ log'[Len(log') - 1].e = "verify" /\ log'[Len(log') - 1].n = 0
    ]_vars

\* the pair was appended although the batch had an Error result
C18_AppendedDespiteError ==
    /\ pc = "Idle" /\ outcome = "Stopped"
    /\ Failures # {}
    /\ Len(agent_history) >= 2
    /\ agent_history[Len(agent_history) - 1] = Turn("user", current_request)
    /\ saved_history = agent_history


\* ------------------------------------------------------------------------
\* Verification that cannot be started
\* ------------------------------------------------------------------------
\* the verification run of log entry i did not start the test command
NotStarted(i) ==
    \/ log[i].e = "verify_unavailable"
    \/ log[i].e = "verify" /\ log[i].aux = <<MsgNotRecognized>>

\* C19: when the test command cannot be started the verification counts as
\* skipped: the task ends there, with no Correcting, no correction request
\* and no status failed saved.
C19_UnstartedIsSkipped ==
    \A i \in 1..Len(log) : NotStarted(i)
        => /\ Len(log) = i + 1 /\ log[i + 1].e = "Skipped"
           /\ pc = "Idle" /\ outcome = "Skipped"
           /\ calls = <<>>
           /\ state_record.status # "failed"

\* the same for the case in which subprocess.run raises
C19_RaisedIsSkipped ==
    \A i \in 1..Len(log) : log[i].e = "verify_unavailable"
        => /\ Len(log) = i + 1 /\ log[i + 1].e = "Skipped"
           /\ pc = "Idle" /\ outcome = "Skipped"
           /\ calls = <<>>
           /\ state_record.status = "applying"

\* subprocess.run raised after a batch without errors
C19_RaisedWitness ==
    /\ pc = "Idle" /\ outcome = "Skipped"
    /\ log[Len(log) - 1].e = "verify_unavailable"
    /\ DOMAIN disk.files # {}


\* ------------------------------------------------------------------------
\* Move
\* ------------------------------------------------------------------------
\* agent.py 62: for move the content field holds the destination path
DestOf(a) == Rel(ContentOf(a).c)

DestTarget(a) == Resolve(links, cwd, DestOf(a))

\* C20: a move whose source and destination the Sandbox accepts, whose
\* source is a file and whose destination does not exist, moves the file and
\* gets a Success result; a move whose source is missing or whose
\* destination exists gets an Error result and changes nothing.
C20_MoveMovesTheFile ==
    (HasRun /\ KindOf(LastAction) = "move" /\ PathOf(LastAction).t = "str"
        /\ ContentOf(LastAction).t = "str")
    => /\ (Accepted(LastAction) /\ validate_path(links, cwd, DestOf(LastAction)).ok
             /\ TargetOf(LastAction) \in DOMAIN Pre.files
             /\ ~Exists(Pre, DestTarget(LastAction)))
             => /\ LastResult.status = "success"
                /\ TargetOf(LastAction) \notin DOMAIN disk.files
                /\ DestTarget(LastAction) \in DOMAIN disk.files
                /\ disk.files[DestTarget(LastAction)] = Pre.files[TargetOf(LastAction)]
       /\ (~Exists(Pre, TargetOf(LastAction)) \/ Exists(Pre, DestTarget(LastAction)))
             => LastResult.status = "error" /\ disk = Pre

\* what the executor does with a move: an Error result, Unknown action, and
\* the disk as it was
C20_MoveIsUnknown ==
    (HasRun /\ KindOf(LastAction) \in {"move", "delete"})
    => /\ LastResult.status = "error"
       /\ disk = Pre
       /\ Accepted(LastAction) => LastResult.message = MsgUnknown

\* a move met its source file and a free destination
C20_MoveRefused ==
    /\ HasRun /\ KindOf(LastAction) = "move"
    /\ TargetOf(LastAction) \in DOMAIN Pre.files
    /\ ~Exists(Pre, DestTarget(LastAction))
    /\ LastResult.message = MsgUnknown

\* ------------------------------------------------------------------------
\* C21  Session History is append-only but for the reset command
\* ------------------------------------------------------------------------
\* agent_history grew at its end and kept the turns it had
Extends(old, new) ==
    /\ Len(new) > Len(old)
    /\ SubSeq(new, 1, Len(old)) = old

\* C21: every step of the session either leaves agent_history as it is, or
\* appends turns at its end and keeps every turn it had, in place and in
\* order, or is the /newchat command, which empties it; no other command and
\* no way a task ends shortens or rewrites it.
C21_HistoryIsAppendOnly ==
    [][ \/ agent_history' = agent_history
        \/ Extends(agent_history, agent_history')
        \/ (NewChat /\ agent_history' = <<>>) ]_vars

\* a second pair of turns was appended after the turns of an earlier cycle
C21_Witness ==
    /\ Len(agent_history) >= 4
    /\ agent_history[1].role = "user"
    /\ agent_history[3].role = "user"

\* ------------------------------------------------------------------------
\* C22  what the prompts of a plan request contain
\* ------------------------------------------------------------------------
\* the prompts sent to the model by the running plan request
SentPrompts == {calls[j].text : j \in {i \in 1..Len(calls) : calls[i].e = "generate"}}

\* the cycle was opened by a failed verification run
InCorrection == Len(log) > 3 /\ log[4].e = "Correcting"

\* C22: every prompt sent in Planning contains the text the user typed for
\* the task and the content of every turn of Session History, and in a
\* correction cycle also the output of the preceding verification run.
C22_PromptHasRequestHistoryFeedback ==
    \A p \in SentPrompts :
        /\ Contains(p, task_input)
        /\ \A i \in 1..Len(agent_history) : Contains(p, agent_history[i].content)
        /\ InCorrection => Contains(p, log[3].text) /\ Contains(p, log[3].aux)

\* agent.py 95-99 and 149-154: a prompt is made of the system prompt, the
\* project context and the current request, with the error of the previous
\* reply on a retry; the current request of a correction cycle is the
\* correction request alone (chat.py 257)
C22_PromptIsContextAndCurrentRequest ==
    \A p \in SentPrompts :
        /\ \/ p = BasePrompt(current_request)
           \/ \E j \in 1..Len(calls) :
                 calls[j].e = "malformed" /\ p = RetryPrompt(current_request, calls[j].text[1])
        /\ InCorrection => current_request = CorrectionRequest(
                               Ran(log[3].n, log[3].text, log[3].aux))

\* a prompt was sent in a correction cycle, with turns in Session History
C22_PromptSentInCorrection ==
    /\ InCorrection
    /\ SentPrompts # {}
    /\ agent_history # <<>>
    /\ \A p \in SentPrompts : ~Contains(p, task_input)

\* ------------------------------------------------------------------------
\* C23  an interrupt and the batch or test run in flight
\* ------------------------------------------------------------------------
\* the session was left by a KeyboardInterrupt raised while it was at `where`
InterruptedAt(where) ==
    /\ pc = "Exited"
    /\ outcome = "Interrupted"
    /\ log[1].text = <<where>>

\* C23: an interrupt is honoured between cycles only: it never ends the
\* session inside apply_actions with actions of the batch still without a
\* result, nor while the verification run is awaited.
C23_InterruptWaitsForBatchAndRun ==
    /\ InterruptedAt("Applying") => Len(results) = Len(Items)
    /\ ~InterruptedAt("Verifying")

\* chat.py 290-292: the interrupt ended the session inside a batch of two
\* actions, the first of which had written its file
C23_BatchLeftPartlyApplied ==
    /\ InterruptedAt("Applying")
    /\ Len(Items) = 2
    /\ Len(results) = 1
    /\ results[1].status = "success"
    /\ disk # disk0

\* ------------------------------------------------------------------------
\* C24  no cap on edit-verify cycles
\* ------------------------------------------------------------------------
\* the Correcting transitions the task has made
Corrections == IF requests = 0 THEN 0 ELSE requests - 1

EmptyPlanReplied ==
    /\ pc = "Validating"
    /\ OneValue(response_text)
    /\ PlanIn(response_text) = PlanOf(<<>>)

\* what the executor, the test runner, the confirmation and the correction
\* leave in the log of a cycle
Engaged == {"confirm_yes", "confirm_no", "apply", "results", "execute", "verify",
            "Correcting", "malformed"}

\* C25: a reply holding a plan with an empty actions list is extracted as a
\* valid plan, and the step the loop takes on it (unless the session is
\* interrupted first) ends the task at once: no retry and no new plan
\* request, no confirmation, no call of the executor or of the test runner,
\* the disk, Session History and the status record as they were.
C25_EmptyPlanEndsTheTask ==
    [][ (EmptyPlanReplied /\ pc' # "Exited")
          => /\ Extract(response_text).status = "ok"
             /\ plan' = PlanOf(<<>>)
             /\ pc' = "Idle"
             /\ outcome' = "NoActions"
             /\ requests' = requests
             /\ calls' = <<>>
             /\ results' = <<>>
             /\ \A i \in (Len(log) + 1)..Len(log') : log'[i].e \notin Engaged
             /\ UNCHANGED <<disk, agent_history, saved_history, state_record>> ]_vars

\* the task of a correction cycle ended on an empty plan
C25_Witness ==
    /\ pc = "Idle"
    /\ outcome = "NoActions"
    /\ plan = PlanOf(<<>>)
    /\ InCorrection
    /\ agent_history # <<>>
    /\ \A i \in 6..Len(log) : log[i].e \notin Engaged

\* ------------------------------------------------------------------------
\* C26  what an action with an Error result leaves behind
\* ------------------------------------------------------------------------
\* the action just run reported an error
LastFailed == HasRun /\ LastResult.status = "error"

\* C26: an action whose result is Error leaves the project tree as it was
\* before the action: the same files with the same content and the same
\* directories.
C26_ErrorLeavesTreeUntouched ==
    LastFailed => disk = Pre

\* fs.py 92 runs before fs.py 95-98: a failed action changes no file, and the
\* only directories it can add are the ancestors of its accepted target
C26_ErrorKeepsFiles ==
    LastFailed =>
        /\ disk.files = Pre.files
        /\ Pre.dirs \subseteq disk.dirs
        /\ disk.dirs # Pre.dirs =>
              /\ Accepted(LastAction)
              /\ KindOf(LastAction) \in {"create", "write", "replace"}
              /\ disk.dirs \ Pre.dirs \subseteq Prefixes(Front(TargetOf(LastAction)))

\* a write with content that is not text failed after its parent directory
\* was made
C26_DirectoryLeftBehind ==
    /\ LastFailed
    /\ ContentOf(LastAction).t # "str"
    /\ disk.dirs # Pre.dirs
    /\ disk.files = Pre.files

\* ------------------------------------------------------------------------
\* C27  parse and validation failures stay inside the plan request
\* ------------------------------------------------------------------------
\* an exception raised while the reply was parsed left generate_plan
ParseErrorEscaped ==
    /\ calls # <<>>
    /\ calls[Len(calls)].e = "raised"

\* C27: whatever text the model returns, its extraction gives a valid plan or
\* a malformed-plan outcome that the plan request handles itself; no
\* exception raised by parsing or validation leaves the plan request, so the
\* Control Loop is never left through one.
C27_ParseFailuresStayInside ==
    /\ pc = "Validating" => Extract(response_text).status \in {"ok", "malformed"}
    /\ ~ParseErrorEscaped
    /\ pc = "Crashed" => BatchRaised

\* agent.py 135 and 143: the TypeError of ast.literal_eval is not among the
\* classes caught, it leaves generate_plan and the session on the attempt it
\* is raised, a retry included
C27_TypeErrorEscapes ==
    /\ pc = "Crashed"
    /\ ParseErrorEscaped
    /\ calls[Len(calls)].text = <<DetailKey>>
    /\ calls[Len(calls)].n > 0

====
